---- MODULE Spec2Model ----
(***************************************************************************)
(* Model of toheute.py: the last commit's changed files are classified,    *)
(* the eligible ones are copied into an OMD site and the site's services   *)
(* are restarted.                                                          *)
(*                                                                         *)
(* A Python str is a sequence of one-character strings; a pathlib.Path is  *)
(* modelled by its str() form, and the segment-wise Path operations        *)
(* (name, relative_to, /) work on the "/"-separated parts of that form.    *)
(***************************************************************************)
EXTENDS Naturals, Sequences, FiniteSets

VARIABLES
    pc,           \* position of main()
    no_reload,    \* --no-reload
    full_reload,  \* --full-reload
    site_name,    \* result of SiteManager.select_site()
    filepaths,    \* Commit.filepaths
    listed,       \* the two path lists print_commit_info has printed
    valid_paths,  \* valid_paths of main(), also FileManager._paths
    answer,       \* what console.confirm() was answered: "none", "y", "n"
    site_path,    \* outcome of the latest FileManager._get_site_path call
    copies,       \* the `sudo cp -R` runs so far, in order
    restarts,     \* the `sudo --login -u site -- cmd` runs so far, in order
    exit_msg      \* message of console.exit(), "" while none

vars == <<pc, no_reload, full_reload, site_name, filepaths, listed, valid_paths,
          answer, site_path, copies, restarts, exit_msg>>

-----------------------------------------------------------------------------
(* Bounds and input sets *)

MaxPaths == 3

Sites == {<<"v">>, <<"m", "y">>}

Paths == {
    <<"c", "m", "k", "/", "g", "u", "i", "/", "m", ".", "p", "y">>,
    <<"c", "m", "k", "/", "b", ".", "p", "y">>,
    <<"b", "i", "n", "/", "t">>,
    <<"b", "i", "n", "o", "/", "f", ".", "p", "y">>,
    <<".", "w", "e", "r", "k", "s", "/", "1">>,
    <<"t", "e", "s", "t", "s", "/", "x", ".", "p", "y">>,
    <<"p", "a", "c", "k", "a", "g", "e", "s", "/", "o", "/", "y">>,
    <<"p", "a", "c", "k", "a", "g", "e", "s", "/", "c", "m", "k", "-", "f", "r", "o", "n", "t", "e", "n", "d", "/", "s", "r", "c", "/", "a", ".", "t", "s">>,
    <<"p", "a", "c", "k", "a", "g", "e", "s", "/", "c", "m", "k", "-", "f", "r", "o", "n", "t", "e", "n", "d", "/", "s", "r", "c", "-", "g", "/", "a", ".", "t", "s">>,
    <<"a", "c", "t", "i", "v", "e", "_", "c", "h", "e", "c", "k", "s", "/", "s", "/", "c">> }

ReturnCodes == {0, 1}

Range(s) == {s[i] : i \in DOMAIN s}

\* the changed-file lists of one commit: the keys of a dict, so no duplicates
FilepathLists ==
    UNION {{s \in [1..n -> Paths] : \A i, j \in 1..n : s[i] = s[j] => i = j}
           : n \in 0..MaxPaths}

-----------------------------------------------------------------------------
(* Python str and pathlib.Path operations *)

\* str.startswith(prefix)
StartsWith(s, prefix) ==
    /\ Len(prefix) <= Len(s)
    /\ SubSeq(s, 1, Len(prefix)) = prefix

\* str.startswith(tuple of prefixes)
StartsWithAny(s, prefixes) == \E k \in DOMAIN prefixes : StartsWith(s, prefixes[k])

\* PurePath.parts of a relative path
RECURSIVE parts(_)
parts(s) ==
    IF s = <<".">> \/ s = <<>> THEN <<>>
    ELSE IF \A i \in DOMAIN s : s[i] # "/" THEN <<s>>
    ELSE LET k == CHOOSE i \in DOMAIN s :
                      s[i] = "/" /\ \A j \in 1..(i - 1) : s[j] # "/"
         IN  <<SubSeq(s, 1, k - 1)>> \o parts(SubSeq(s, k + 1, Len(s)))

\* str() of the relative path with the given parts
RECURSIVE from_parts(_)
from_parts(ps) ==
    IF ps = <<>> THEN <<".">>
    ELSE IF Len(ps) = 1 THEN ps[1]
    ELSE ps[1] \o <<"/">> \o from_parts(Tail(ps))

\* PurePath.name
name(s) == LET ps == parts(s) IN IF ps = <<>> THEN <<>> ELSE ps[Len(ps)]

\* PurePath.is_relative_to(other): other is the path itself or one of its parents
is_relative_to(s, other) ==
    LET ps == parts(s)
        os == parts(other)
    IN  Len(os) <= Len(ps) /\ SubSeq(ps, 1, Len(os)) = os

\* PurePath.relative_to(other); raises ValueError when other is no parent
relative_to(s, other) ==
    IF is_relative_to(s, other)
    THEN [raised |-> FALSE,
          path |-> from_parts(SubSeq(parts(s), Len(parts(other)) + 1, Len(parts(s))))]
    ELSE [raised |-> TRUE, path |-> <<>>]

\* Path(base) / rel for a relative rel
joinpath(base, rel) == IF rel = <<".">> THEN base ELSE base \o <<"/">> \o rel

-----------------------------------------------------------------------------
(* toheute.py *)

PATH_PREFIX_BLOCK_LIST == <<<<".", "w", "e", "r", "k", "s">>, <<"b", "i", "n">>, <<"p", "a", "c", "k", "a", "g", "e", "s">>, <<"t", "e", "s", "t", "s">>>>
PATH_PREFIX_ALLOW_LIST == <<<<"p", "a", "c", "k", "a", "g", "e", "s", "/", "c", "m", "k", "-", "f", "r", "o", "n", "t", "e", "n", "d">>>>

\* _is_valid_path without the allow list: `return not in_block_list`
is_valid_path_no_allow(fpath) ==
    ~StartsWithAny(fpath, PATH_PREFIX_BLOCK_LIST)

\* Commit._is_valid_path
_is_valid_path(fpath) ==
    LET in_block_list == StartsWithAny(fpath, PATH_PREFIX_BLOCK_LIST)
        in_allow_list == StartsWithAny(fpath, PATH_PREFIX_ALLOW_LIST)
    IN  ~in_block_list \/ in_allow_list

\* get_valid_paths that collects the kept paths in reverse
RECURSIVE get_valid_paths_reversed(_)
get_valid_paths_reversed(fps) ==
    IF fps = <<>> THEN <<>>
    ELSE get_valid_paths_reversed(Tail(fps))
             \o (IF _is_valid_path(Head(fps)) THEN <<Head(fps)>> ELSE <<>>)

\* Commit.get_valid_paths: [fp for fp in self.filepaths if self._is_valid_path(fp)]
RECURSIVE get_valid_paths(_)
get_valid_paths(fps) ==
    IF fps = <<>> THEN <<>>
    ELSE (IF _is_valid_path(Head(fps)) THEN <<Head(fps)>> ELSE <<>>)
             \o get_valid_paths(Tail(fps))

\* Commit.get_invalid_paths: [fp for fp in self.filepaths if not self._is_valid_path(fp)]
RECURSIVE get_invalid_paths(_)
get_invalid_paths(fps) ==
    IF fps = <<>> THEN <<>>
    ELSE (IF ~_is_valid_path(Head(fps)) THEN <<Head(fps)>> ELSE <<>>)
             \o get_invalid_paths(Tail(fps))

\* has_gui_change with all() in place of any()
has_gui_change_all(fps) ==
    \A i \in DOMAIN get_valid_paths(fps) :
        StartsWith(get_valid_paths(fps)[i], <<"c", "m", "k", "/", "g", "u", "i">>)

\* Commit.has_gui_change
has_gui_change(fps) ==
    \E i \in DOMAIN get_valid_paths(fps) :
        StartsWith(get_valid_paths(fps)[i], <<"c", "m", "k", "/", "g", "u", "i">>)

\* FileManager._get_site_path: the destination, or the ValueError of relative_to
_get_site_path(site, fpath) ==
    IF StartsWith(fpath, <<"a", "c", "t", "i", "v", "e", "_", "c", "h", "e", "c", "k", "s">>)
    THEN [raised |-> FALSE,
          path |-> joinpath(<<"/", "o", "m", "d", "/", "s", "i", "t", "e", "s", "/">> \o site \o <<"/", "l", "i", "b", "/", "n", "a", "g", "i", "o", "s", "/", "p", "l", "u", "g", "i", "n", "s">>,
                            name(fpath))]
    ELSE IF StartsWith(fpath, <<"p", "a", "c", "k", "a", "g", "e", "s", "/", "c", "m", "k", "-", "f", "r", "o", "n", "t", "e", "n", "d", "/", "s", "r", "c">>)
    THEN LET rp == relative_to(fpath, <<"p", "a", "c", "k", "a", "g", "e", "s", "/", "c", "m", "k", "-", "f", "r", "o", "n", "t", "e", "n", "d", "/", "s", "r", "c">>)
         IN  IF rp.raised THEN rp
             ELSE [raised |-> FALSE,
                   path |-> joinpath(<<"/", "o", "m", "d", "/", "s", "i", "t", "e", "s", "/">> \o site
                                        \o <<"/", "s", "h", "a", "r", "e", "/", "c", "h", "e", "c", "k", "_", "m", "k", "/", "w", "e", "b", "/", "h", "t", "d", "o", "c", "s">>, rp.path)]
    ELSE [raised |-> FALSE,
          path |-> joinpath(<<"/", "o", "m", "d", "/", "s", "i", "t", "e", "s", "/">> \o site \o <<"/", "l", "i", "b", "/", "p", "y", "t", "h", "o", "n", "3">>, fpath)]

NoSitePath == [raised |-> FALSE, path |-> <<>>]

NothingListed == [valid |-> <<>>, invalid |-> <<>>]

-----------------------------------------------------------------------------
(* main() *)

Init ==
    /\ pc = "select_site"
    /\ no_reload \in BOOLEAN
    /\ full_reload \in BOOLEAN
    /\ site_name = <<>>
    /\ filepaths = <<>>
    /\ listed = NothingListed
    /\ valid_paths = <<>>
    /\ answer = "none"
    /\ site_path = NoSitePath
    /\ copies = <<>>
    /\ restarts = <<>>
    /\ exit_msg = ""

\* line 41: SiteManager.select_site returns one of the site names
SelectSite ==
    /\ pc = "select_site"
    /\ site_name' \in Sites
    /\ pc' = "get_last_commit"
    /\ UNCHANGED <<no_reload, full_reload, filepaths, listed, valid_paths, answer,
                   site_path, copies, restarts, exit_msg>>

\* lines 43-44: GitRepository.get_last_commit
GetLastCommit ==
    /\ pc = "get_last_commit"
    /\ filepaths' \in FilepathLists
    /\ pc' = "print_commit_info"
    /\ UNCHANGED <<no_reload, full_reload, site_name, listed, valid_paths, answer,
                   site_path, copies, restarts, exit_msg>>

\* line 45: GitRepository.print_commit_info exits when nothing changed, and
\* otherwise prints the paths to copy (213) and those it cannot sync (216)
PrintCommitInfo ==
    /\ pc = "print_commit_info"
    /\ IF filepaths = <<>>
       THEN /\ pc' = "exit"
            /\ exit_msg' = "No changed files."
            /\ listed' = listed
       ELSE /\ pc' = "get_valid_paths"
            /\ exit_msg' = exit_msg
            /\ listed' = [valid |-> get_valid_paths(filepaths),
                          invalid |-> get_invalid_paths(filepaths)]
    /\ UNCHANGED <<no_reload, full_reload, site_name, filepaths, valid_paths,
                   answer, site_path, copies, restarts>>

\* lines 47-48
GetValidPaths ==
    /\ pc = "get_valid_paths"
    /\ valid_paths' = get_valid_paths(filepaths)
    /\ IF valid_paths' = <<>>
       THEN pc' = "exit" /\ exit_msg' = "No paths available to copy."
       ELSE pc' = "confirm" /\ exit_msg' = exit_msg
    /\ UNCHANGED <<no_reload, full_reload, site_name, filepaths, listed, answer,
                   site_path, copies, restarts>>

\* Confirm that goes on to the sync whatever the answer
Confirm_ignored ==
    /\ pc = "confirm"
    /\ answer' \in {"y", "n"}
    /\ pc' = "sync"
    /\ UNCHANGED <<no_reload, full_reload, site_name, filepaths, listed, valid_paths,
                   site_path, copies, restarts, exit_msg>>

\* lines 50-51: console.confirm() is True exactly for the answer "y"
Confirm ==
    /\ pc = "confirm"
    /\ answer' \in {"y", "n"}
    /\ IF answer' = "y"
       THEN pc' = "sync" /\ exit_msg' = exit_msg
       ELSE pc' = "exit" /\ exit_msg' = "No paths to copy."
    /\ UNCHANGED <<no_reload, full_reload, site_name, filepaths, listed, valid_paths,
                   site_path, copies, restarts>>

\* Sync that ends the run at the first failed copy
Sync_abort_on_failure ==
    /\ pc = "sync"
    /\ Len(copies) < Len(valid_paths)
    /\ LET path == valid_paths[Len(copies) + 1]
           r == _get_site_path(site_name, path)
       IN  /\ site_path' = r
           /\ IF r.raised
              THEN pc' = "ValueError" /\ copies' = copies /\ exit_msg' = exit_msg
              ELSE \E rc \in ReturnCodes :
                       /\ copies' = Append(copies, [src |-> path, dst |-> r.path,
                                                    returncode |-> rc])
                       /\ pc' = IF rc = 0 THEN "sync" ELSE "exit"
                       /\ exit_msg' = IF rc = 0 THEN exit_msg ELSE "ERROR"
    /\ UNCHANGED <<no_reload, full_reload, site_name, filepaths, listed, valid_paths,
                   answer, restarts>>

\* Sync that walks the paths from the last to the first
Sync_reversed ==
    /\ pc = "sync"
    /\ Len(copies) < Len(valid_paths)
    /\ LET path == valid_paths[Len(valid_paths) - Len(copies)]
           r == _get_site_path(site_name, path)
       IN  /\ site_path' = r
           /\ IF r.raised
              THEN pc' = "ValueError" /\ copies' = copies
              ELSE /\ pc' = "sync"
                   /\ \E rc \in ReturnCodes :
                          copies' = Append(copies, [src |-> path, dst |-> r.path,
                                                    returncode |-> rc])
    /\ UNCHANGED <<no_reload, full_reload, site_name, filepaths, listed, valid_paths,
                   answer, restarts, exit_msg>>

\* lines 236-239: one iteration of the loop of FileManager.sync. An uncaught
\* ValueError of _get_site_path ends the process.
Sync ==
    /\ pc = "sync"
    /\ Len(copies) < Len(valid_paths)
    /\ LET path == valid_paths[Len(copies) + 1]
           r == _get_site_path(site_name, path)
       IN  /\ site_path' = r
           /\ IF r.raised
              THEN pc' = "ValueError" /\ copies' = copies
              ELSE /\ pc' = "sync"
                   /\ \E rc \in ReturnCodes :
                          copies' = Append(copies, [src |-> path, dst |-> r.path,
                                                    returncode |-> rc])
    /\ UNCHANGED <<no_reload, full_reload, site_name, filepaths, listed, valid_paths,
                   answer, restarts, exit_msg>>

\* CheckReload where --no-reload is not overridden by --full-reload
CheckReload_no_override ==
    /\ pc = "sync"
    /\ Len(copies) = Len(valid_paths)
    /\ IF no_reload
       THEN pc' = "exit" /\ exit_msg' = "Not reloading services. Done :)"
       ELSE pc' = "restart_checkmk" /\ exit_msg' = exit_msg
    /\ UNCHANGED <<no_reload, full_reload, site_name, filepaths, listed, valid_paths,
                   answer, site_path, copies, restarts>>

\* lines 56-57, reached when the loop of sync is over
CheckReload ==
    /\ pc = "sync"
    /\ Len(copies) = Len(valid_paths)
    /\ IF no_reload /\ ~full_reload
       THEN pc' = "exit" /\ exit_msg' = "Not reloading services. Done :)"
       ELSE pc' = "restart_checkmk" /\ exit_msg' = exit_msg
    /\ UNCHANGED <<no_reload, full_reload, site_name, filepaths, listed, valid_paths,
                   answer, site_path, copies, restarts>>

\* SiteController._execute and _print_result: the command runs, its return code
\* is only printed
Execute(cmd) ==
    \E rc \in ReturnCodes :
        restarts' = Append(restarts, [site |-> site_name, cmd |-> cmd,
                                      returncode |-> rc])

\* lines 61-62: site.restart_checkmk(), then the test of line 62
RestartCheckmk ==
    /\ pc = "restart_checkmk"
    /\ Execute("cmk -R")
    /\ pc' = IF full_reload \/ has_gui_change(filepaths)
             THEN "restart_apache" ELSE "done"
    /\ UNCHANGED <<no_reload, full_reload, site_name, filepaths, listed, valid_paths,
                   answer, site_path, copies, exit_msg>>

\* line 63: site.restart_apache()
RestartApache ==
    /\ pc = "restart_apache"
    /\ Execute("omd reload apache")
    /\ pc' = "restart_ui_scheduler"
    /\ UNCHANGED <<no_reload, full_reload, site_name, filepaths, listed, valid_paths,
                   answer, site_path, copies, exit_msg>>

\* line 64: site.restart_ui_scheduler()
RestartUiScheduler ==
    /\ pc = "restart_ui_scheduler"
    /\ Execute("omd restart ui-job-scheduler")
    /\ pc' = "done"
    /\ UNCHANGED <<no_reload, full_reload, site_name, filepaths, listed, valid_paths,
                   answer, site_path, copies, exit_msg>>

Next ==
    \/ SelectSite
    \/ GetLastCommit
    \/ PrintCommitInfo
    \/ GetValidPaths
    \/ Confirm
    \/ Sync
    \/ CheckReload
    \/ RestartCheckmk
    \/ RestartApache
    \/ RestartUiScheduler

Spec == Init /\ [][Next]_vars

-----------------------------------------------------------------------------
(* Notions the properties are stated in *)

IsPrefix(a, b) == Len(a) <= Len(b) /\ SubSeq(b, 1, Len(a)) = a

\* position of an element in a list without duplicates
IndexOf(x, f) == CHOOSE i \in DOMAIN f : f[i] = x

\* v keeps the relative order its elements have in f
KeepsOrder(v, f) ==
    /\ Range(v) \subseteq Range(f)
    /\ \A a, b \in DOMAIN v : a < b => IndexOf(v[a], f) < IndexOf(v[b], f)

\* v and w are a stable partition of f
StablePartition(v, w, f) ==
    /\ \A i \in DOMAIN f : (f[i] \in Range(v)) # (f[i] \in Range(w))
    /\ Len(v) + Len(w) = Len(f)
    /\ KeepsOrder(v, f)
    /\ KeepsOrder(w, f)

Srcs(cs) == [i \in DOMAIN cs |-> cs[i].src]
Cmds(rs) == [i \in DOMAIN rs |-> rs[i].cmd]

\* the commit is loaded and nothing else has happened; filepaths never changes
\* afterwards
CommitLoaded == pc = "print_commit_info"

\* line 47 has just been executed; valid_paths never changes afterwards
JustClassified ==
    pc = "confirm" \/ (pc = "exit" /\ exit_msg = "No paths available to copy.")

Classified == pc \notin {"select_site", "get_last_commit", "print_commit_info",
                         "get_valid_paths"}

\* the block and allow rule as the specification words it, on the string form
Blocked(p) ==
    \E b \in {<<".", "w", "e", "r", "k", "s">>, <<"b", "i", "n">>, <<"p", "a", "c", "k", "a", "g", "e", "s">>, <<"t", "e", "s", "t", "s">>} : StartsWith(p, b)
Allowed(p) == StartsWith(p, <<"p", "a", "c", "k", "a", "g", "e", "s", "/", "c", "m", "k", "-", "f", "r", "o", "n", "t", "e", "n", "d">>)
Eligible(p) == ~Blocked(p) \/ Allowed(p)

\* a block prefix aligned on a path boundary
BlockedOnBoundary(p) ==
    \E b \in {<<".", "w", "e", "r", "k", "s">>, <<"b", "i", "n">>, <<"p", "a", "c", "k", "a", "g", "e", "s">>, <<"t", "e", "s", "t", "s">>} : is_relative_to(p, b)

AffectsInteractiveUI(fps) ==
    \E i \in DOMAIN fps : Eligible(fps[i]) /\ StartsWith(fps[i], <<"c", "m", "k", "/", "g", "u", "i">>)

FixedOrder == <<"cmk -R", "omd reload apache", "omd restart ui-job-scheduler">>

PlannedRestarts ==
    IF no_reload /\ ~full_reload THEN <<>>
    ELSE IF full_reload \/ AffectsInteractiveUI(filepaths) THEN FixedOrder
    ELSE <<"cmk -R">>

NotReloadingExit == pc = "exit" /\ exit_msg = "Not reloading services. Done :)"

\* the three destination rules as the specification words them
SiteRoot(site) == <<"/", "o", "m", "d", "/", "s", "i", "t", "e", "s", "/">> \o site \o <<"/">>
RuleDestination(site, p) ==
    IF StartsWith(p, <<"a", "c", "t", "i", "v", "e", "_", "c", "h", "e", "c", "k", "s">>)
    THEN SiteRoot(site) \o <<"l", "i", "b", "/", "n", "a", "g", "i", "o", "s", "/", "p", "l", "u", "g", "i", "n", "s", "/">> \o name(p)
    ELSE IF StartsWith(p, <<"p", "a", "c", "k", "a", "g", "e", "s", "/", "c", "m", "k", "-", "f", "r", "o", "n", "t", "e", "n", "d", "/", "s", "r", "c">>)
    THEN LET rest == SubSeq(p, Len(<<"p", "a", "c", "k", "a", "g", "e", "s", "/", "c", "m", "k", "-", "f", "r", "o", "n", "t", "e", "n", "d", "/", "s", "r", "c">>) + 1, Len(p))
         IN  SiteRoot(site) \o <<"s", "h", "a", "r", "e", "/", "c", "h", "e", "c", "k", "_", "m", "k", "/", "w", "e", "b", "/", "h", "t", "d", "o", "c", "s", "/">>
                 \o (IF rest # <<>> /\ Head(rest) = "/" THEN Tail(rest) ELSE rest)
    ELSE SiteRoot(site) \o <<"l", "i", "b", "/", "p", "y", "t", "h", "o", "n", "3", "/">> \o p

\* the path the latest _get_site_path call was made for
Attempted == site_path # NoSitePath
AttemptedPath ==
    IF site_path.raised THEN valid_paths[Len(copies) + 1]
    ELSE copies[Len(copies)].src

-----------------------------------------------------------------------------
(* Properties *)

\* C1: get_valid_paths and get_invalid_paths are a stable partition of
\* Commit.filepaths, for every list of changed paths, the empty one included:
\* each path is in exactly one of the two, in the order of the input.
C1_StablePartition ==
    /\ CommitLoaded =>
           StablePartition(get_valid_paths(filepaths), get_invalid_paths(filepaths),
                           filepaths)
    /\ JustClassified => StablePartition(valid_paths, listed.invalid, filepaths)
    /\ Classified => valid_paths = listed.valid

C1_Witness ==
    /\ JustClassified
    /\ Len(listed.valid) >= 2
    /\ Len(listed.invalid) >= 1

\* C2: a block prefix only blocks a path when it ends on a path boundary: a
\* path no block prefix is a parent of is eligible.
C2_SegmentAware ==
    JustClassified =>
        \A i \in DOMAIN filepaths :
            ~BlockedOnBoundary(filepaths[i]) => filepaths[i] \in Range(valid_paths)

\* C3: a path is eligible iff it is not blocked or it is allowed, whatever the
\* other paths of the input are; the allow list overrides the block list.
C3_EligibleIffNotBlockedOrAllowed ==
    /\ CommitLoaded =>
           \A i \in DOMAIN filepaths :
               _is_valid_path(filepaths[i]) <=> Eligible(filepaths[i])
    /\ JustClassified =>
           \A i \in DOMAIN filepaths :
               /\ filepaths[i] \in Range(valid_paths) <=> Eligible(filepaths[i])
               /\ filepaths[i] \in Range(listed.invalid) <=> ~Eligible(filepaths[i])
               /\ Allowed(filepaths[i]) => filepaths[i] \in Range(valid_paths)
               /\ Blocked(filepaths[i]) /\ ~Allowed(filepaths[i])
                      => filepaths[i] \notin Range(valid_paths)

C3_Witness ==
    /\ JustClassified
    /\ \E i \in DOMAIN filepaths :
           Blocked(filepaths[i]) /\ Allowed(filepaths[i])
               /\ filepaths[i] \in Range(valid_paths)
    /\ \E i \in DOMAIN filepaths :
           Blocked(filepaths[i]) /\ filepaths[i] \in Range(listed.invalid)

\* C4: _get_site_path returns a destination for every site and every eligible
\* path and never raises.
C4_Total == pc # "ValueError" /\ ~site_path.raised

\* C5: the destination of a path is the one of the first of the three rules
\* that matches it, and lies under /omd/sites/{site}/.
C5_OrderedRules ==
    /\ Attempted =>
           site_path = [raised |-> FALSE,
                        path |-> RuleDestination(site_name, AttemptedPath)]
    /\ \A i \in DOMAIN copies :
           /\ copies[i].dst = RuleDestination(site_name, copies[i].src)
           /\ StartsWith(copies[i].dst, SiteRoot(site_name))

\* C6: a run that reaches the restart step executes nothing when no-reload is
\* set and full-reload is not; otherwise cmk -R, and with it both UI actions
\* iff full-reload is set or an eligible path starts with cmk/gui.
C6_RestartSet ==
    /\ IsPrefix(Cmds(restarts), PlannedRestarts)
    /\ (pc = "done" \/ NotReloadingExit) => Cmds(restarts) = PlannedRestarts
    /\ pc = "done" => ~(no_reload /\ ~full_reload)
    /\ NotReloadingExit => no_reload /\ ~full_reload
    /\ (pc = "exit" /\ answer = "y") => NotReloadingExit
    /\ (pc = "done" \/ pc = "exit") =>
           (\E i \in DOMAIN restarts : restarts[i].cmd = "omd reload apache")
               <=> (\E i \in DOMAIN restarts :
                        restarts[i].cmd = "omd restart ui-job-scheduler")
    /\ \A i \in DOMAIN restarts : restarts[i].site = site_name

C6_Witness ==
    /\ pc = "done"
    /\ no_reload /\ full_reload
    /\ ~AffectsInteractiveUI(filepaths)
    /\ Cmds(restarts) = FixedOrder

\* C7: has_gui_change is true iff an eligible path starts with cmk/gui; it is
\* false for the empty input, and it alone decides the UI restarts of a run
\* without full-reload.
C7_GuiChange ==
    /\ CommitLoaded =>
           /\ has_gui_change(filepaths) <=> AffectsInteractiveUI(filepaths)
           /\ filepaths = <<>> => ~has_gui_change(filepaths)
           /\ (\A i \in DOMAIN filepaths : ~Eligible(filepaths[i]))
                  => ~has_gui_change(filepaths)
    /\ (pc = "done" /\ ~full_reload) =>
           (Len(restarts) = 3 <=> AffectsInteractiveUI(filepaths))

C7_Witness ==
    /\ pc = "done"
    /\ ~full_reload
    /\ Len(restarts) = 3
    /\ Len(filepaths) = 2
    /\ \E i \in DOMAIN filepaths : ~StartsWith(filepaths[i], <<"c", "m", "k", "/", "g", "u", "i">>)

\* C8: nothing is mapped, copied or restarted unless the confirmation was
\* answered with yes, and a declined confirmation ends the run.
C8_DeclineStopsRun ==
    /\ answer # "y" => copies = <<>> /\ restarts = <<>> /\ site_path = NoSitePath
    /\ answer = "n" => pc = "exit" /\ exit_msg = "No paths to copy."

C8_Witness ==
    /\ answer = "n"
    /\ pc = "exit"
    /\ Len(valid_paths) = 2

\* C9: a copy or a restart that returns non-zero changes nothing in what
\* follows: after any copy the loop goes on, once every eligible file was
\* attempted the restart step is taken as planned, after any restart action
\* the next planned one follows, and a run that is done has attempted them all.
C9_Step ==
    /\ copies' # copies => pc' = "sync" /\ IsPrefix(Srcs(copies'), valid_paths)
    /\ (pc = "sync" /\ Len(copies) = Len(valid_paths)) =>
           pc' = IF no_reload /\ ~full_reload THEN "exit" ELSE "restart_checkmk"
    /\ restarts' # restarts =>
           /\ Len(copies) = Len(valid_paths)
           /\ IsPrefix(Cmds(restarts'), PlannedRestarts)
           /\ pc' = IF Len(restarts') = Len(PlannedRestarts) THEN "done"
                    ELSE IF Len(restarts') = 1 THEN "restart_apache"
                    ELSE "restart_ui_scheduler"
    /\ pc' = "done" =>
           /\ Srcs(copies') = valid_paths
           /\ Cmds(restarts') = PlannedRestarts

====
